---------------------------- MODULE Spec2Model ----------------------------
(***************************************************************************)
(* Model of librosa/feature/utils.py: delta, stack_memory and sync.        *)
(*                                                                         *)
(* Arrays.  A 2-D array of shape (d, t) is a sequence of d rows, each a    *)
(* sequence of t cells (1-based here, 0-based in the source).  A 1-D array *)
(* of shape (t,) is held as its single row together with ndim = 1.  The    *)
(* model covers d >= 1 and t >= 1.                                         *)
(*                                                                         *)
(* Numbers.  Input cells are integers.  Where the source divides (the      *)
(* normalised window of delta, np.mean in sync) the value is kept as an    *)
(* exact fraction: a numerator with a stated denominator.                  *)
(***************************************************************************)
EXTENDS Integers, Sequences, FiniteSets, TLC

VARIABLES
    fn,          \* the function being called
    pc,          \* position in its body
    err,         \* the exception raised, "" while there is none
    arg,         \* the caller's arguments, as passed
    data,        \* the local name `data` (rebound by the body)
    t,           \* stack_memory: t
    history,     \* stack_memory: history
    i,           \* loop index (stack_memory: i, delta: _, sync: i)
    half_length, \* delta: half_length
    window,      \* delta: window, [num |-> integer taps, den |-> divisor]
    delta_x,     \* delta: delta_x, [num |-> integer matrix, den |-> divisor]
    frames,      \* sync: the local name `frames`
    data_agg,    \* sync: data_agg
    start,       \* sync: start
    calls,       \* sync: the slices <<start, end>> handed to aggregate so far
    aliases,     \* the local names bound to memory of the caller's data array
    back,        \* the value returned by the inverse conversion applied to result
    result       \* the returned value

vars == <<fn, pc, err, arg, data, t, history, i, half_length, window,
          delta_x, frames, data_agg, start, calls, aliases, back, result>>

-----------------------------------------------------------------------------
(* Bounds of the model *)

MaxD == 2        \* rows of the input
MaxT == 6        \* columns of the input
MaxSteps == 3    \* n_steps
MaxDelay == 2    \* delay

(* The inputs: data[r][c] = q*k^2 + a*k + b with k the flat (row-major)    *)
(* index of the cell; q = 0, a = 1 is np.arange(b, b + d*t).reshape(d, t), *)
(* q = 0, a = 0 a constant signal.                                         *)
Quads == {0, 1}
Slopes == {0, 1, -2}
Offsets == {-3, 1}
PadModes == {"constant", "edge", "reflect"}
PadValues == {0, 7}

Poly(q, a, b, k) == q * k * k + a * k + b

Input(d, n, q, a, b) ==
    [r \in 1..d |-> [c \in 1..n |-> Poly(q, a, b, (r - 1) * n + (c - 1))]]

-----------------------------------------------------------------------------
(* numpy primitives *)

Rows(m) == Len(m)
Cols(m) == Len(m[1])

Min(x, y) == IF x < y THEN x ELSE y
Max(x, y) == IF x > y THEN x ELSE y

RECURSIVE FSum(_, _, _)
FSum(f, lo, hi) == IF lo > hi THEN 0 ELSE f[lo] + FSum(f, lo + 1, hi)

(* np.pad: the 0-based source index that the 0-based index j, outside      *)
(* 0..n-1, takes its value from under mode "edge" or "reflect".            *)
PadIndex(j, n, mode) ==
    IF j >= 0 /\ j < n THEN j
    ELSE IF mode = "edge" \/ n = 1 THEN (IF j < 0 THEN 0 ELSE n - 1)
    ELSE LET period == 2 * (n - 1)
             m == j % period
         IN  IF m > n - 1 THEN period - m ELSE m

(* np.pad(m, [(b0, a0), (b1, a1)], mode=mode, constant_values=[cval]) *)
NpPad(m, padding, mode, cval) ==
    LET d == Rows(m)
        n == Cols(m)
        b0 == padding[1][1]
        b1 == padding[2][1]
        outRows == b0 + d + padding[1][2]
        outCols == b1 + n + padding[2][2]
        inside(r, c) == r >= 0 /\ r < d /\ c >= 0 /\ c < n
    IN  [r \in 1..outRows |-> [c \in 1..outCols |->
            IF mode = "constant" /\ ~inside(r - 1 - b0, c - 1 - b1)
            THEN cval
            ELSE m[PadIndex(r - 1 - b0, d, mode) + 1]
                  [PadIndex(c - 1 - b1, n, mode) + 1]]]

(* np.roll(m, shift, axis=1): out[:, (c + shift) mod n] = m[:, c] *)
NpRoll(m, shift) ==
    LET n == Cols(m)
    IN  [r \in 1..Rows(m) |-> [c \in 1..n |-> m[r][((c - 1 - shift) % n) + 1]]]

(* np.vstack([top, bottom]) *)
NpVstack(top, bottom) == top \o bottom

(* m[:, :n] *)
FirstCols(m, n) == [r \in 1..Rows(m) |-> SubSeq(m[r], 1, Min(n, Cols(m)))]

(* The shape of an array held as matrix m with rank ndim *)
Shape(m, ndim) == IF ndim = 1 THEN <<Cols(m)>> ELSE <<Rows(m), Cols(m)>>

-----------------------------------------------------------------------------
(* stack_memory(data, n_steps, delay, mode=..., constant_values=...) *)

(* A 1-D array has one row; constant_values is given only with the mode    *)
(* "constant" (line 214).                                                  *)
StackArgs(x) ==
    \E d \in 1..MaxD, n \in 1..MaxT, q \in Quads, a \in Slopes, b \in Offsets,
       nd \in {1, 2}, ns \in 0..MaxSteps, dl \in 0..MaxDelay, md \in PadModes,
       cv \in PadValues :
        /\ nd = 1 => d = 1
        /\ md # "constant" => cv = 0
        /\ x = [data |-> Input(d, n, q, a, b), ndim |-> nd, n_steps |-> ns,
                delay |-> dl, mode |-> md, cval |-> cv]

Idle ==
    /\ t = 0 /\ history = <<>> /\ i = 0 /\ half_length = 0
    /\ window = <<>> /\ delta_x = <<>> /\ frames = <<>>
    /\ data_agg = <<>> /\ start = 0 /\ calls = <<>> /\ result = <<>>
    /\ aliases = {"data"} /\ back = <<>>

InitStack ==
    /\ fn = "stack_memory"
    /\ pc = "validate"
    /\ err = ""
    /\ StackArgs(arg)
    /\ data = arg.data
    /\ Idle

(* lines 203-207 *)
StackValidate ==
    /\ fn = "stack_memory" /\ pc = "validate"
    /\ IF arg.n_steps < 1 \/ arg.delay < 1
       THEN pc' = "raised" /\ err' = "ParameterError"
       ELSE pc' = "pad" /\ err' = err
    /\ UNCHANGED <<aliases, back, fn, arg, data, t, history, i, half_length, window,
                   delta_x, frames, data_agg, start, calls, result>>

(* Mutant: the pad is put after the last column instead of before the first *)
StackPadded_PadRight(m, n_steps, delay, mode, cval) ==
    NpPad(m, <<<<0, 0>>, <<0, (n_steps - 1) * delay>>>>, mode, cval)

(* Mutant: one lag too many is padded *)
StackPadded_ExtraLag(m, n_steps, delay, mode, cval) ==
    NpPad(m, <<<<0, 0>>, <<n_steps * delay, 0>>>>, mode, cval)

(* Mutant: the pad is n_steps - 1 columns whatever the delay *)
StackPadded_ShortPad(m, n_steps, delay, mode, cval) ==
    NpPad(m, <<<<0, 0>>, <<n_steps - 1, 0>>>>, mode, cval)

StackPadded(m, n_steps, delay, mode, cval) ==
    NpPad(m, <<<<0, 0>>, <<(n_steps - 1) * delay, 0>>>>, mode, cval)

(* Mutant: with nothing to pad, np.pad is skipped and data stays the       *)
(* caller's array                                                          *)
StackPad_NoCopy ==
    /\ fn = "stack_memory" /\ pc = "pad"
    /\ t' = Cols(data)
    /\ data' = StackPadded(data, arg.n_steps, arg.delay, arg.mode, arg.cval)
    /\ history' = data'
    /\ aliases' = IF (arg.n_steps - 1) * arg.delay = 0
                  THEN aliases \cup {"history"} ELSE {}
    /\ i' = 1
    /\ pc' = "loop"
    /\ UNCHANGED <<back, fn, err, arg, half_length, window, delta_x, frames,
                   data_agg, start, calls, result>>

(* lines 209-220; np.atleast_2d gives a view of the caller's array, np.pad *)
(* a new array                                                             *)
StackPad ==
    /\ fn = "stack_memory" /\ pc = "pad"
    /\ t' = Cols(data)
    /\ data' = StackPadded(data, arg.n_steps, arg.delay, arg.mode, arg.cval)
    /\ history' = data'
    /\ aliases' = {}
    /\ i' = 1
    /\ pc' = "loop"
    /\ UNCHANGED <<back, fn, err, arg, half_length, window, delta_x, frames,
                   data_agg, start, calls, result>>

(* Mutant: the rolled copy is stacked below the history *)
StackStep_HistoryOnTop(padded, hist, k, delay) ==
    NpVstack(hist, NpRoll(padded, -k * delay))

(* Mutant: the copy is rolled to the right *)
StackStep_RollRight(padded, hist, k, delay) ==
    NpVstack(NpRoll(padded, k * delay), hist)

StackStep(padded, hist, k, delay) ==
    NpVstack(NpRoll(padded, -k * delay), hist)

(* lines 222-223 *)
StackLoop ==
    /\ fn = "stack_memory" /\ pc = "loop"
    /\ i < arg.n_steps
    /\ history' = StackStep(data, history, i, arg.delay)
    /\ i' = i + 1
    /\ UNCHANGED <<aliases, back, fn, pc, err, arg, data, t, half_length, window, delta_x,
                   frames, data_agg, start, calls, result>>

(* Mutant: the history is returned at its padded width *)
StackTrimmed_NoTrim(hist, n) == hist

StackTrimmed(hist, n) == FirstCols(hist, n)

(* lines 225-229 *)
StackReturn ==
    /\ fn = "stack_memory" /\ pc = "loop"
    /\ i >= arg.n_steps
    /\ history' = StackTrimmed(history, t)
    /\ result' = history'
    /\ aliases' = IF "history" \in aliases THEN aliases \cup {"result"}
                                            ELSE aliases
    /\ pc' = "done"
    /\ UNCHANGED <<back, fn, err, arg, data, t, i, half_length, window, delta_x,
                   frames, data_agg, start, calls>>

NextStack == StackValidate \/ StackPad \/ StackLoop \/ StackReturn

SpecStack == InitStack /\ [][NextStack]_vars

-----------------------------------------------------------------------------
(* Properties of stack_memory *)

StackDone == fn = "stack_memory" /\ pc = "done"

(* data[r, j] for a 0-based column j, an index below 0 resolved by the pad *)
(* policy of the call                                                      *)
Lagged(r, j) ==
    IF j >= 0 THEN arg.data[r][j + 1]
    ELSE IF arg.mode = "constant" THEN arg.cval
    ELSE arg.data[r][PadIndex(j, Cols(arg.data), arg.mode) + 1]

Warmup == (arg.n_steps - 1) * arg.delay

(* C1, as stated: column i of the output, read top-to-bottom, is           *)
(* [data[:, i-(n_steps-1)*delay], ..., data[:, i-delay], data[:, i]]:      *)
(* the oldest lag in the top d rows, the current column in the bottom d.   *)
C1_OldestOnTop ==
    StackDone =>
        \A c \in 1..Cols(arg.data), k \in 0..(arg.n_steps - 1),
           r \in 1..Rows(arg.data) :
            result[k * Rows(arg.data) + r][c]
                = Lagged(r, (c - 1) - (arg.n_steps - 1 - k) * arg.delay)

(* C1, amended: column i of the output, read top-to-bottom, is             *)
(* [data[:, i], data[:, i-delay], ..., data[:, i-(n_steps-1)*delay]]: the  *)
(* current column in the top d rows, the oldest lag in the bottom d rows,  *)
(* an index below 0 resolved by the pad policy.                            *)
C1_CurrentOnTop ==
    StackDone =>
        \A c \in 1..Cols(arg.data), k \in 0..(arg.n_steps - 1),
           r \in 1..Rows(arg.data) :
            result[k * Rows(arg.data) + r][c]
                = Lagged(r, (c - 1) - k * arg.delay)

C1_Witness ==
    /\ StackDone /\ arg.n_steps = 3 /\ arg.delay = 2 /\ arg.mode = "reflect"
    /\ Rows(arg.data) = 2 /\ Cols(arg.data) = 3
    /\ arg.data[1][1] # arg.data[1][2]

(* Rows (k*d + 1)..(k*d + d) of column c of m *)
Block(m, d, k, c) == [r \in 1..d |-> m[k * d + r][c]]

DocExampleArgs ==
    [data |-> <<<<-3, -2, -1, 0, 1, 2>>>>, ndim |-> 1, n_steps |-> 3,
     delay |-> 1, mode |-> "constant", cval |-> 0]

(* C2: with constant padding, data[:, i] is mapped to the column           *)
(* [data[:, i], data[:, i-delay], ..., data[:, i-(n_steps-1)*delay]] read  *)
(* top-to-bottom, the pad value standing wherever the index is below 0;    *)
(* and stack_memory([-3..2], n_steps=3, delay=1) is the docstring's matrix.*)
C2_DocstringMapping ==
    /\ (StackDone /\ arg.mode = "constant") =>
          \A c \in 1..Cols(arg.data), k \in 0..(arg.n_steps - 1) :
            Block(result, Rows(arg.data), k, c)
                = IF c - k * arg.delay >= 1
                  THEN Block(arg.data, Rows(arg.data), 0, c - k * arg.delay)
                  ELSE [r \in 1..Rows(arg.data) |-> arg.cval]
    /\ (StackDone /\ arg = DocExampleArgs) =>
          result = << <<-3, -2, -1,  0,  1, 2>>,
                      << 0, -3, -2, -1,  0, 1>>,
                      << 0,  0, -3, -2, -1, 0>> >>

C2_Witness == StackDone /\ arg = DocExampleArgs

(* C3, as stated: past the warm-up region the bottom d rows of column i    *)
(* are data[:, i].                                                         *)
C3_BottomIsCurrent ==
    StackDone =>
        \A c \in 1..Cols(arg.data) :
            c - 1 >= Warmup =>
                Block(result, Rows(arg.data), arg.n_steps - 1, c)
                    = Block(arg.data, Rows(arg.data), 0, c)

(* C3, amended: for every column i >= (n_steps-1)*delay the bottom d rows  *)
(* of column i are data[:, i-(n_steps-1)*delay] exactly, whatever the pad  *)
(* mode and pad value.                                                     *)
C3_BottomIsOldest ==
    StackDone =>
        \A c \in 1..Cols(arg.data) :
            c - 1 >= Warmup =>
                Block(result, Rows(arg.data), arg.n_steps - 1, c)
                    = Block(arg.data, Rows(arg.data), 0, c - Warmup)

C3_Witness ==
    /\ StackDone /\ arg.n_steps = 2 /\ arg.delay = 2 /\ arg.mode = "edge"
    /\ Cols(arg.data) = 4 /\ Rows(arg.data) = 2
    /\ Block(result, 2, 1, 3) = Block(arg.data, 2, 0, 1)
    /\ Block(result, 2, 1, 3) # Block(arg.data, 2, 0, 3)

C5_OneStepIsIdentity ==
    (StackDone /\ arg.n_steps = 1) => result = arg.data

C5_Witness ==
    /\ StackDone /\ arg.n_steps = 1 /\ arg.delay = 2
    /\ arg.mode = "constant" /\ arg.cval = 7 /\ Cols(arg.data) = 3

-----------------------------------------------------------------------------
(* delta(data, width, order, axis, trim).  order is held as its value and   *)
(* order_int, whether it is an int (2.0 has the value 2 and is not).       *)

MaxWidth == 5    \* width
MaxOrder == 2    \* order

DeltaArgs(x) ==
    \E d \in 1..MaxD, n \in 1..MaxT, q \in Quads, a \in Slopes, b \in Offsets,
       nd \in {1, 2}, w \in 1..MaxWidth, o \in 0..MaxOrder, oi \in BOOLEAN,
       ax \in {-1, 0}, tr \in BOOLEAN :
        /\ nd = 1 => d = 1
        /\ x = [data |-> Input(d, n, q, a, b), ndim |-> nd, width |-> w,
                order |-> o, order_int |-> oi, axis |-> ax, trim |-> tr]

InitDelta ==
    /\ fn = "delta"
    /\ pc = "validate"
    /\ err = ""
    /\ DeltaArgs(arg)
    /\ data = arg.data
    /\ Idle

(* The axis of the held matrix that `axis` names: 0 its rows, 1 its        *)
(* columns.  A negative axis counts from the last; a 1-D array is held as  *)
(* a row.                                                                  *)
AxisOf(axis, ndim) ==
    IF ndim = 1 THEN 1 ELSE IF axis < 0 THEN axis + ndim ELSE axis

(* m.shape[axis] *)
AxisLen(m, ax) == IF ax = 0 THEN Rows(m) ELSE Cols(m)

(* np.arange(first, stop, -1) *)
NpArangeDown(first, stop) == [k \in 1..Max(first - stop, 0) |-> first - (k - 1)]

(* np.sum(np.abs(w)**2) *)
SumSq(w) == FSum([k \in 1..Len(w) |-> w[k] * w[k]], 1, Len(w))

(* scipy.signal.lfilter(b, 1, x, axis): y[n] = sum_k b[k] * x[n - k] over  *)
(* the taps k with n - k >= 0 (zero initial state)                         *)
LFilter(b, x, ax) ==
    [r \in 1..Rows(x) |-> [c \in 1..Cols(x) |->
        LET pos == IF ax = 0 THEN r ELSE c
            last == Min(Len(b), pos)
        IN  FSum([k \in 1..last |->
                    b[k] * (IF ax = 0 THEN x[r - (k - 1)][c]
                                      ELSE x[r][c - (k - 1)])],
                 1, last)]]

(* The 0-based bounds <<lo, hi>> that slice(first, stop) selects, lo..hi-1, *)
(* on an axis of length n                                                  *)
PySlice(first, stop, n) ==
    LET norm(v) == IF v < 0 THEN Max(v + n, 0) ELSE Min(v, n)
    IN  <<norm(first), Max(norm(first), norm(stop))>>

(* m[lo:hi] along axis ax, lo and hi 0-based *)
TakeAlong(m, ax, lo, hi) ==
    IF ax = 0 THEN SubSeq(m, lo + 1, hi)
    ELSE [r \in 1..Rows(m) |-> SubSeq(m[r], lo + 1, hi)]

(* Mutant: the width is not required to be odd *)
DeltaValidate_AnyParity ==
    /\ fn = "delta" /\ pc = "validate"
    /\ IF arg.width < 3
       THEN pc' = "raised" /\ err' = "ParameterError"
       ELSE IF arg.order <= 0 \/ ~arg.order_int
       THEN pc' = "raised" /\ err' = "ParameterError"
       ELSE pc' = "window" /\ err' = err
    /\ UNCHANGED <<aliases, back, fn, arg, data, t, history, i, half_length,
                   window, delta_x, frames, data_agg, start, calls, result>>

(* lines 83-89; order_int is isinstance(order, int) *)
DeltaValidate ==
    /\ fn = "delta" /\ pc = "validate"
    /\ IF arg.width < 3 \/ arg.width % 2 # 1
       THEN pc' = "raised" /\ err' = "ParameterError"
       ELSE IF arg.order <= 0 \/ ~arg.order_int
       THEN pc' = "raised" /\ err' = "ParameterError"
       ELSE pc' = "window" /\ err' = err
    /\ UNCHANGED <<aliases, back, fn, arg, data, t, history, i, half_length, window,
                   delta_x, frames, data_agg, start, calls, result>>

DeltaHalfLength(width) == 1 + (width \div 2)

(* Mutant: the taps ascend, -(half_length-1) .. half_length-1 *)
DeltaTaps_Ascending(hl) == [k \in 1..(2 * hl - 1) |-> k - hl]

(* line 92 *)
DeltaTaps(hl) == NpArangeDown(hl - 1, -hl)

(* lines 91-95: the window is taps / sum of squares *)
DeltaWindow ==
    /\ fn = "delta" /\ pc = "window"
    /\ half_length' = DeltaHalfLength(arg.width)
    /\ window' = [num |-> DeltaTaps(half_length'),
                  den |-> SumSq(DeltaTaps(half_length'))]
    /\ pc' = "pad"
    /\ UNCHANGED <<aliases, back, fn, err, arg, data, t, history, i, delta_x, frames,
                   data_agg, start, calls, result>>

(* Mutant: the pad is the window's reach, half_length - 1, on each side *)
DeltaPadded_Reach(m, width, ax) ==
    LET reach == DeltaHalfLength(width) - 1
    IN  NpPad(m, IF ax = 0 THEN <<<<reach, reach>>, <<0, 0>>>>
                           ELSE <<<<0, 0>>, <<reach, reach>>>>, "edge", 0)

(* lines 97-100 *)
DeltaPadded(m, width, ax) ==
    NpPad(m, IF ax = 0 THEN <<<<width, width>>, <<0, 0>>>>
                       ELSE <<<<0, 0>>, <<width, width>>>>, "edge", 0)

DeltaPad ==
    /\ fn = "delta" /\ pc = "pad"
    /\ delta_x' = [num |-> DeltaPadded(data, arg.width,
                                      AxisOf(arg.axis, arg.ndim)),
                   den |-> 1]
    /\ i' = 0
    /\ pc' = "filter"
    /\ UNCHANGED <<aliases, back, fn, err, arg, data, t, history, half_length, window,
                   frames, data_agg, start, calls, result>>

(* lines 102-103 *)
DeltaFilter ==
    /\ fn = "delta" /\ pc = "filter"
    /\ i < arg.order
    /\ delta_x' = [num |-> LFilter(window.num, delta_x.num,
                                   AxisOf(arg.axis, arg.ndim)),
                   den |-> delta_x.den * window.den]
    /\ i' = i + 1
    /\ UNCHANGED <<aliases, back, fn, pc, err, arg, data, t, history, half_length, window,
                   frames, data_agg, start, calls, result>>

(* lines 107-109 *)
DeltaTrimmed(m, hl, n, ax) ==
    LET s == PySlice(-hl - n, -hl, AxisLen(m, ax))
    IN  TakeAlong(m, ax, s[1], s[2])

(* lines 105-111 *)
DeltaReturn ==
    /\ fn = "delta" /\ pc = "filter"
    /\ i >= arg.order
    /\ delta_x' =
         IF arg.trim
         THEN [delta_x EXCEPT !.num =
                 DeltaTrimmed(@, half_length,
                              AxisLen(data, AxisOf(arg.axis, arg.ndim)),
                              AxisOf(arg.axis, arg.ndim))]
         ELSE delta_x
    /\ result' = delta_x'
    /\ pc' = "done"
    /\ UNCHANGED <<aliases, back, fn, err, arg, data, t, history, i, half_length, window,
                   frames, data_agg, start, calls>>

NextDelta == DeltaValidate \/ DeltaWindow \/ DeltaPad \/ DeltaFilter \/ DeltaReturn

SpecDelta == InitDelta /\ [][NextDelta]_vars

-----------------------------------------------------------------------------
(* Properties of delta *)

DeltaDone == fn = "delta" /\ pc = "done"

DeltaAxis == AxisOf(arg.axis, arg.ndim)

(* The j-th line of m along axis ax: row j for ax = 1, column j for ax = 0 *)
LineOf(m, ax, j) == IF ax = 1 THEN m[j] ELSE [r \in 1..Rows(m) |-> m[r][j]]

IsRectangular(m) == \A r \in 1..Rows(m) : Len(m[r]) = Cols(m)

C6_WitnessTrim ==
    /\ DeltaDone /\ arg.trim /\ arg.ndim = 2 /\ arg.axis = -1
    /\ arg.width = 3 /\ Shape(result.num, 2) = <<2, 4>>

IsConstant(m) ==
    \A r \in 1..Rows(m), c \in 1..Cols(m) : m[r][c] = m[1][1]

(* C7: for a constant-valued signal, every odd width >= 3 and every order  *)
(* >= 1, every element of delta's output (trimmed, as by default) is zero. *)
C7_ConstantGivesZero ==
    (DeltaDone /\ arg.trim /\ IsConstant(arg.data)) =>
        \A r \in 1..Rows(result.num), c \in 1..Cols(result.num) :
            result.num[r][c] = 0

(* The same with order = 1 *)
C7_FirstOrder ==
    (DeltaDone /\ arg.trim /\ IsConstant(arg.data) /\ arg.order = 1) =>
        \A r \in 1..Rows(result.num), c \in 1..Cols(result.num) :
            result.num[r][c] = 0

IsRamp(line) ==
    \A c \in 2..Len(line) : line[c] - line[c - 1] = line[2] - line[1]

(* C8: for a linear ramp along the axis, order = 1 and trim=True, delta is *)
(* the slope at every index whose centred window of half-width             *)
(* half_length - 1 lies inside the signal: the integer taps give the slope *)
(* times the window's sum of squares, which is the divisor.                *)
C8_RampGivesSlope ==
    (DeltaDone /\ arg.trim /\ arg.order = 1) =>
        \A j \in 1..AxisLen(arg.data, 1 - DeltaAxis) :
            LET x == LineOf(arg.data, DeltaAxis, j)
                y == LineOf(result.num, DeltaAxis, j)
                reach == half_length - 1
            IN  (Len(x) >= 2 /\ IsRamp(x)) =>
                  /\ result.den = SumSq(window.num)
                  /\ \A c \in (1 + reach)..(Len(x) - reach) :
                        y[c] = (x[2] - x[1]) * result.den

C8_Witness ==
    /\ DeltaDone /\ arg.trim /\ arg.order = 1 /\ arg.width = 5
    /\ arg.ndim = 1 /\ Len(arg.data[1]) = 6 /\ IsRamp(arg.data[1])
    /\ arg.data[1][2] - arg.data[1][1] = -2
    /\ result.den = 10
    /\ result.num[1][3] = -20 /\ result.num[1][4] = -20

-----------------------------------------------------------------------------
(* sync(data, frames, aggregate, pad) *)

SyncMaxT == 3     \* columns of the input of sync
MaxFrames == 3    \* entries of the boundary list passed to sync

SyncRows == {1, 2}
Aggregates == {"None", "np.sum", "np.max"}

RECURSIVE SeqsUpTo(_, _)
SeqsUpTo(S, n) ==
    IF n = 0 THEN {<<>>}
    ELSE LET shorter == SeqsUpTo(S, n - 1)
         IN  shorter \cup {Append(s, v) : s \in {x \in shorter : Len(x) = n - 1},
                                          v \in S}

(* The boundaries run from one below 0 to one above the number of columns. *)
(* A rank-3 array is held by one of its 2-D slices.                        *)
SyncArgs(x) ==
    \E d \in SyncRows, n \in 1..SyncMaxT, a \in Slopes, nd \in {1, 2, 3},
       ag \in Aggregates, pd \in BOOLEAN :
        \E f \in SeqsUpTo(-1..(n + 1), MaxFrames) :
            /\ nd = 1 <=> d = 1
            /\ nd = 3 => (f = <<>> /\ ag = "None")
            /\ x = [data |-> Input(d, n, 1, a, 1), ndim |-> nd, frames |-> f,
                    aggregate |-> ag, pad |-> pd]

InitSync ==
    /\ fn = "sync"
    /\ pc = "validate"
    /\ err = ""
    /\ SyncArgs(arg)
    /\ data = arg.data
    /\ Idle

RECURSIVE SortedSeq(_)
SortedSeq(S) ==
    IF S = {} THEN <<>>
    ELSE LET least == CHOOSE v \in S : \A w \in S : v <= w
         IN  <<least>> \o SortedSeq(S \ {least})

(* util.fix_frames(frames, x_min, x_max, pad): clipped to [x_min, x_max]   *)
(* with both ends added when pad, else the values outside dropped; then    *)
(* deduplicated and sorted ascending.                                      *)
FixFrames(fr, x_min, x_max, pad) ==
    LET given == {fr[k] : k \in 1..Len(fr)}
    IN  SortedSeq(IF pad
                  THEN {Max(x_min, Min(v, x_max)) : v \in given}
                           \cup {x_min, x_max}
                  ELSE {v \in given : x_min <= v /\ v <= x_max})

(* aggregate(row[lo:hi]) as the fraction <<numerator, denominator>>;       *)
(* np.mean of an empty slice is nan, held as <<0, 0>>.                     *)
AggregateRow(ag, row, lo, hi) ==
    LET s == PySlice(lo, hi, Len(row))
        part == SubSeq(row, s[1] + 1, s[2])
        total == FSum(part, 1, Len(part))
    IN  IF ag = "np.sum" THEN <<total, 1>>
        ELSE IF ag = "np.max"
        THEN <<CHOOSE v \in {part[k] : k \in 1..Len(part)} :
                  \A k \in 1..Len(part) : part[k] <= v, 1>>
        ELSE <<total, Len(part)>>

(* A cell of np.empty: not yet written *)
Uninit == <<0, -1>>

(* lines 315-317 *)
SyncValidate ==
    /\ fn = "sync" /\ pc = "validate"
    /\ IF arg.ndim > 2
       THEN pc' = "raised" /\ err' = "ParameterError"
       ELSE pc' = "fix" /\ err' = err
    /\ UNCHANGED <<aliases, back, fn, arg, data, t, history, i, half_length, window,
                   delta_x, frames, data_agg, start, calls, result>>

(* lines 319-326 *)
SyncFix ==
    /\ fn = "sync" /\ pc = "fix"
    /\ frames' = FixFrames(arg.frames, 0, Cols(data), arg.pad)
    /\ pc' = "alloc"
    /\ UNCHANGED <<aliases, back, fn, err, arg, data, t, history, i, half_length, window,
                   delta_x, data_agg, start, calls, result>>

(* lines 328-330; np.empty refuses a negative dimension and frames[0] an   *)
(* empty list                                                              *)
SyncAlloc ==
    /\ fn = "sync" /\ pc = "alloc"
    /\ IF Len(frames) = 0
       THEN /\ pc' = "raised" /\ err' = "ValueError"
            /\ UNCHANGED <<data_agg, start, i>>
       ELSE /\ data_agg' = [r \in 1..Rows(data) |->
                              [c \in 1..(Len(frames) - 1) |-> Uninit]]
            /\ start' = frames[1]
            /\ i' = 0
            /\ pc' = "loop" /\ err' = err
    /\ UNCHANGED <<aliases, back, fn, arg, data, t, history, half_length, window, delta_x,
                   frames, calls, result>>

(* np.max refuses an empty slice (ValueError); np.mean and np.sum do not *)
AggregateRaises(ag, lo, hi, n) ==
    ag = "np.max" /\ PySlice(lo, hi, n)[1] = PySlice(lo, hi, n)[2]

(* One turn of the loop of lines 332-334 with `end` the boundary taken     *)
(* from frames and `carried` the value start is left with.  The assignment *)
(* data_agg[:, i] = ... writes in place: were data_agg bound to the        *)
(* caller's array, the caller's array would change.                       *)
SyncLoopBody(end, carried) ==
    /\ fn = "sync" /\ pc = "loop"
    /\ i < Len(frames) - 1
    /\ calls' = Append(calls, <<start, end>>)
    /\ IF AggregateRaises(arg.aggregate, start, end, Cols(data))
       THEN /\ pc' = "raised" /\ err' = "ValueError"
            /\ UNCHANGED <<data_agg, start, i, arg>>
       ELSE /\ data_agg' = [r \in 1..Rows(data) |->
                 [data_agg[r] EXCEPT ![i + 1] =
                     AggregateRow(arg.aggregate, data[r], start, end)]]
            /\ arg' = IF "data_agg" \in aliases
                      THEN [arg EXCEPT !.data = data_agg'] ELSE arg
            /\ start' = carried
            /\ i' = i + 1
            /\ UNCHANGED <<pc, err>>
    /\ UNCHANGED <<aliases, back, fn, data, t, history, half_length, window,
                   delta_x, frames, result>>

(* Mutant: start is not moved on to end *)
SyncLoop_StaleStart == SyncLoopBody(frames[i + 2], start)

(* Mutant: the loop runs over frames instead of frames[1:] *)
SyncLoop_FromFirst == SyncLoopBody(frames[i + 1], frames[i + 1])

(* lines 332-334 *)
SyncLoop == SyncLoopBody(frames[i + 2], frames[i + 2])

(* line 336 *)
SyncReturn ==
    /\ fn = "sync" /\ pc = "loop"
    /\ i >= Len(frames) - 1
    /\ result' = data_agg
    /\ pc' = "done"
    /\ UNCHANGED <<aliases, back, fn, err, arg, data, t, history, i, half_length, window,
                   delta_x, frames, data_agg, start, calls>>

NextSync == SyncValidate \/ SyncFix \/ SyncAlloc \/ SyncLoop \/ SyncReturn

SpecSync == InitSync /\ [][NextSync]_vars

-----------------------------------------------------------------------------
(* Properties of sync *)

SyncDone == fn = "sync" /\ pc = "done"

(* C9: with b_0 < ... < b_{M-1} the boundaries returned by the fixing      *)
(* step, sync returns a (d, M-1) matrix whose column i is                  *)
(* aggregate(data[:, b_i : b_{i+1}]); sync(data, [0, T], pad=True) is the  *)
(* single column aggregate(data) over the whole time axis.                 *)
C9_SyncColumns ==
    SyncDone =>
        /\ Rows(result) = Rows(arg.data)
        /\ \A r \in 1..Rows(result) :
            /\ Len(result[r]) = Len(frames) - 1
            /\ \A c \in 1..(Len(frames) - 1) :
                result[r][c] = AggregateRow(arg.aggregate, arg.data[r],
                                            frames[c], frames[c + 1])
        /\ (arg.frames = <<0, Cols(arg.data)>> /\ arg.pad) =>
              \A r \in 1..Rows(result) :
                result[r] = <<AggregateRow(arg.aggregate, arg.data[r],
                                           0, Len(arg.data[r]))>>

C9_Witness ==
    /\ SyncDone /\ arg.frames = <<0, 3>> /\ arg.pad /\ arg.ndim = 2
    /\ arg.aggregate = "None" /\ Cols(arg.data) = 3
    /\ result = << << <<2, 3>> >>, << <<29, 3>> >> >>

C9_WitnessSegments ==
    /\ SyncDone /\ arg.frames = <<2, 1>> /\ ~arg.pad /\ arg.ndim = 1
    /\ arg.aggregate = "np.max" /\ Cols(arg.data) = 3
    /\ frames = <<1, 2>> /\ result = << << <<0, 1>> >> >>

(* The 0-based input columns that the k-th slice handed to aggregate holds *)
Covered(k) == {c \in 0..(Cols(arg.data) - 1) : calls[k][1] <= c /\ c < calls[k][2]}

(* C10: the segments sync aggregates tile [boundaries[0], boundaries[-1]]  *)
(* of the normalized list in ascending order, each starting where the      *)
(* previous one ends; with pad=True every input column 0..T-1 is in        *)
(* exactly one segment; boundaries [0, k, T] give 2 columns that together  *)
(* cover all T input columns.                                              *)
C10_SegmentsTile ==
    SyncDone =>
        /\ Len(calls) = Len(frames) - 1
        /\ \A k \in 1..Len(calls) :
            /\ calls[k][1] <= calls[k][2]
            /\ calls[k][1] = (IF k = 1 THEN frames[1] ELSE calls[k - 1][2])
            /\ k = Len(calls) => calls[k][2] = frames[Len(frames)]
        /\ arg.pad =>
            \A c \in 0..(Cols(arg.data) - 1) :
                Cardinality({k \in 1..Len(calls) : c \in Covered(k)}) = 1
        /\ (/\ Len(arg.frames) = 3
            /\ arg.frames[1] = 0
            /\ 0 < arg.frames[2] /\ arg.frames[2] < Cols(arg.data)
            /\ arg.frames[3] = Cols(arg.data)) =>
              /\ \A r \in 1..Rows(result) : Len(result[r]) = 2
              /\ Covered(1) \cap Covered(2) = {}
              /\ Covered(1) \cup Covered(2) = 0..(Cols(arg.data) - 1)

C10_Witness ==
    /\ SyncDone /\ arg.frames = <<0, 1, 3>> /\ Cols(arg.data) = 3
    /\ calls = << <<0, 1>>, <<1, 3>> >>

C10_WitnessPad ==
    /\ SyncDone /\ arg.frames = <<2, 4, -1>> /\ arg.pad /\ Cols(arg.data) = 3
    /\ calls = << <<0, 2>>, <<2, 3>> >>

-----------------------------------------------------------------------------
(* A call of any of the three functions of feature/utils.py *)

Init == InitStack \/ InitDelta \/ InitSync

Next == NextStack \/ NextDelta \/ NextSync

Spec == Init /\ [][Next]_vars

(* The call's arguments are malformed *)
Malformed ==
    \/ /\ fn = "delta"
       /\ \/ arg.width < 3
          \/ \E k \in 0..arg.width : arg.width = 2 * k
          \/ ~(arg.order_int /\ arg.order >= 1)
    \/ /\ fn = "stack_memory"
       /\ (arg.n_steps < 1 \/ arg.delay < 1)
    \/ /\ fn = "sync"
       /\ arg.ndim > 2

(* Nothing has been padded, filtered, stacked or aggregated, and nothing   *)
(* returned                                                                *)
NothingComputed ==
    /\ data = arg.data /\ history = <<>> /\ window = <<>> /\ delta_x = <<>>
    /\ frames = <<>> /\ data_agg = <<>> /\ calls = <<>> /\ result = <<>>

(* C11: a call with a malformed argument (delta: width < 3 or even, order  *)
(* not a positive int; stack_memory: n_steps < 1 or delay < 1; sync: rank  *)
(* > 2) fails with ParameterError at its validation, before anything is    *)
(* computed, and returns nothing.                                          *)
C11_MalformedRaises ==
    Malformed =>
        /\ pc \in {"validate", "raised"}
        /\ pc = "validate" => (err = "" /\ ENABLED Next)
        /\ pc = "raised" => err = "ParameterError"
        /\ NothingComputed

C11_Witness ==
    /\ fn = "delta" /\ pc = "raised" /\ err = "ParameterError"
    /\ arg.width = 4 /\ arg.order = 1 /\ arg.order_int

C11_WitnessOrder ==
    /\ fn = "delta" /\ pc = "raised" /\ err = "ParameterError"
    /\ arg.width = 3 /\ arg.order = 2 /\ ~arg.order_int

C11_WitnessStack ==
    /\ fn = "stack_memory" /\ pc = "raised" /\ err = "ParameterError"
    /\ arg.n_steps = 2 /\ arg.delay = 0

C11_WitnessSync ==
    /\ fn = "sync" /\ pc = "raised" /\ err = "ParameterError" /\ arg.ndim = 3

(* C12: ParameterError is the only error the three functions produce, and  *)
(* every call with valid arguments runs on to return a result; sync, for   *)
(* any boundary list and either pad, returns one column per consecutive    *)
(* pair of normalized boundaries.                                          *)
C12_OnlyParameterError ==
    /\ pc = "raised" => (err = "ParameterError" /\ Malformed)
    /\ (~Malformed /\ pc # "done") => ENABLED Next
    /\ (fn = "sync" /\ pc = "done") =>
          \A r \in 1..Rows(result) : Len(result[r]) = Len(frames) - 1

(* The calls with valid arguments that fail are those of sync whose        *)
(* normalized boundary list is empty: np.empty is asked for -1 columns.    *)
C12_OnlyEmptyListFails ==
    (pc = "raised" /\ ~Malformed) =>
        /\ fn = "sync" /\ err = "ValueError"
        /\ ~arg.pad /\ frames = <<>> /\ calls = <<>>
        /\ \A k \in 1..Len(arg.frames) :
              arg.frames[k] < 0 \/ arg.frames[k] > Cols(arg.data)

(* C13: no step of delta, stack_memory or sync changes the caller's        *)
(* arguments, whether the call returns or raises, and the returned array   *)
(* shares no memory with the caller's data.                                *)
C13_ArgumentsUntouched ==
    /\ [][arg' = arg]_vars
    /\ [](pc = "done" => "result" \notin aliases)

C13_Witness ==
    /\ fn = "stack_memory" /\ pc = "done" /\ arg.n_steps = 1
    /\ result = arg.data /\ "result" \notin aliases

C13_WitnessSync ==
    /\ fn = "sync" /\ pc = "done" /\ "data" \in aliases
    /\ Len(calls) = 2 /\ "result" \notin aliases

-----------------------------------------------------------------------------
(* core/time_frequency.py: midi_to_note and note_to_midi.  A string is a   *)
(* sequence of one-character strings.                                      *)

MaxMidi == 40    \* MIDI numbers run over -MaxMidi..MaxMidi

DigitChars == <<"0", "1", "2", "3", "4", "5", "6", "7", "8", "9">>
DigitValue(c) == (CHOOSE k \in 1..10 : DigitChars[k] = c) - 1

RECURSIVE FormatNat(_)
FormatNat(n) ==
    IF n < 10 THEN <<DigitChars[n + 1]>>
    ELSE FormatNat(n \div 10) \o <<DigitChars[(n % 10) + 1]>>

(* '{:0d}'.format(n) *)
FormatInt(n) == IF n < 0 THEN <<"-">> \o FormatNat(-n) ELSE FormatNat(n)

(* '{:+02d}'.format(n) *)
FormatSigned(n) == IF n < 0 THEN <<"-">> \o FormatNat(-n)
                            ELSE <<"+">> \o FormatNat(n)

RECURSIVE ParseNat(_, _)
ParseNat(s, acc) ==
    IF s = <<>> THEN acc ELSE ParseNat(Tail(s), 10 * acc + DigitValue(Head(s)))

(* int(s) for s matching [+-]?\d+ *)
ParseInt(s) ==
    IF Head(s) = "-" THEN -ParseNat(Tail(s), 0)
    ELSE IF Head(s) = "+" THEN ParseNat(Tail(s), 0)
    ELSE ParseNat(s, 0)

(* int(a / b) for ints a and b > 0: Python 2 divides two ints to the floor *)
(* and int() has nothing to cut; Python 3 divides to a float and int()     *)
(* truncates it toward zero.                                               *)
IntOfQuotient(a, b, python) ==
    IF python = 2 \/ a >= 0 THEN a \div b ELSE -((-a) \div b)

(* line 460 *)
note_map == << <<"C">>, <<"C", "#">>, <<"D">>, <<"D", "#">>, <<"E">>, <<"F">>,
               <<"F", "#">>, <<"G">>, <<"G", "#">>, <<"A">>, <<"A", "#">>,
               <<"B">> >>

(* lines 460-474, for an integer midi: np.round leaves it, note_cents is 0 *)
MidiToNote(midi, octave, cents, python) ==
    LET note_num == midi
        note_cents == 0
        name == note_map[(note_num % 12) + 1]
        withOctave == IF octave
                      THEN name \o FormatInt(IntOfQuotient(note_num, 12, python) - 1)
                      ELSE name
    IN  IF cents THEN withOctave \o FormatSigned(note_cents) ELSE withOctave

(* line 369 *)
pitch_map(p) ==
    CASE p = "C" -> 0 [] p = "D" -> 2 [] p = "E" -> 4 [] p = "F" -> 5
      [] p = "G" -> 7 [] p = "A" -> 9 [] p = "B" -> 11

(* line 370 *)
acc_map(c) == IF c = "#" THEN 1 ELSE -1

(* str.upper on a note letter *)
Upper(c) ==
    CASE c = "a" -> "A" [] c = "b" -> "B" [] c = "c" -> "C" [] c = "d" -> "D"
      [] c = "e" -> "E" [] c = "f" -> "F" [] c = "g" -> "G" [] OTHER -> c

NoteLetters == {"A", "B", "C", "D", "E", "F", "G",
                "a", "b", "c", "d", "e", "f", "g"}

(* The last index of the longest run of characters of the set chars that   *)
(* starts at index from; from - 1 when there is none                       *)
RECURSIVE RunEnd(_, _, _)
RunEnd(s, from, chars) ==
    IF from <= Len(s) /\ s[from] \in chars
    THEN RunEnd(s, from + 1, chars) ELSE from - 1

Accidentals == {"#", "b", "!"}
Digits == {DigitChars[k] : k \in 1..10}
IsSign(c) == c \in {"+", "-"}

(* lines 372-376: the groups of the regular expression                     *)
(* ^[A-Ga-g][#b!]*([+-]?\d+)?([+-]\d+)?$ on s; ok is whether it matches    *)
NoteMatch(s) ==
    LET accEnd == RunEnd(s, 2, Accidentals)
        octFrom == accEnd + 1
        octDigits == IF octFrom <= Len(s) /\ IsSign(s[octFrom])
                     THEN octFrom + 1 ELSE octFrom
        octEnd == RunEnd(s, octDigits, Digits)
        hasOctave == octEnd >= octDigits
        centsFrom == IF hasOctave THEN octEnd + 1 ELSE octFrom
        hasCents == centsFrom <= Len(s)
        centsEnd == RunEnd(s, centsFrom + 1, Digits)
    IN  [ok |-> /\ Len(s) >= 1 /\ s[1] \in NoteLetters
                /\ (octFrom <= Len(s) => hasOctave)
                /\ (hasCents => /\ IsSign(s[centsFrom])
                                /\ centsEnd > centsFrom
                                /\ centsEnd = Len(s)),
         note |-> s[1],
         accidental |-> SubSeq(s, 2, accEnd),
         octave |-> IF hasOctave THEN SubSeq(s, octFrom, octEnd) ELSE <<>>,
         cents |-> IF hasCents THEN SubSeq(s, centsFrom, Len(s)) ELSE <<>>]

(* int(np.round(num / 100)): to the nearest integer, a half to the even one *)
RoundHundredths(num) ==
    LET fl == num \div 100
        rest == num % 100
    IN  IF rest < 50 THEN fl
        ELSE IF rest > 50 THEN fl + 1
        ELSE IF fl % 2 = 0 THEN fl ELSE fl + 1

(* lines 380-400, with round_midi=True, for a string that matches *)
NoteToMidi(s) ==
    LET m == NoteMatch(s)
        pitch == Upper(m.note)
        offset == FSum([k \in 1..Len(m.accidental) |-> acc_map(m.accidental[k])],
                       1, Len(m.accidental))
        octave == IF m.octave = <<>> THEN 0 ELSE ParseInt(m.octave)
        cents == IF m.cents = <<>> THEN 0 ELSE ParseInt(m.cents)
    IN  RoundHundredths(100 * (12 * (octave + 1) + pitch_map(pitch) + offset)
                        + cents)

NoteArgs(x) ==
    \E n \in (-MaxMidi)..MaxMidi, oc \in BOOLEAN, ce \in BOOLEAN, py \in {2, 3} :
        x = [midi |-> n, octave |-> oc, cents |-> ce, python |-> py]

InitNote ==
    /\ fn = "midi_to_note"
    /\ pc = "validate"
    /\ err = ""
    /\ NoteArgs(arg)
    /\ data = <<>>
    /\ Idle

(* lines 454-474 *)
MidiToNoteCall ==
    /\ fn = "midi_to_note" /\ pc = "validate"
    /\ IF arg.cents /\ ~arg.octave
       THEN pc' = "raised" /\ err' = "ParameterError" /\ result' = result
       ELSE /\ result' = MidiToNote(arg.midi, arg.octave, arg.cents, arg.python)
            /\ pc' = "returned" /\ err' = err
    /\ UNCHANGED <<aliases, back, fn, arg, data, t, history, i, half_length,
                   window, delta_x, frames, data_agg, start, calls>>

(* lines 366-400, called on the string midi_to_note returned *)
NoteToMidiCall ==
    /\ fn = "midi_to_note" /\ pc = "returned"
    /\ fn' = "note_to_midi"
    /\ IF NoteMatch(result).ok
       THEN back' = <<NoteToMidi(result)>> /\ pc' = "done" /\ err' = err
       ELSE back' = back /\ pc' = "raised" /\ err' = "ParameterError"
    /\ UNCHANGED <<aliases, arg, data, t, history, i, half_length, window,
                   delta_x, frames, data_agg, start, calls, result>>

NextNote == MidiToNoteCall \/ NoteToMidiCall

SpecNote == InitNote /\ [][NextNote]_vars

-----------------------------------------------------------------------------
(* Properties of midi_to_note and note_to_midi *)

NoteNamed == fn \in {"midi_to_note", "note_to_midi"} /\ pc \in {"returned", "done"}

(* C14: for every integer n, negative included, midi_to_note(n) is the     *)
(* name of pitch class n mod 12 followed by the octave floor(n / 12) - 1   *)
(* (0 -> 'C-1', 37 -> 'C#2', -2 -> 'A#-2'), and note_to_midi takes it back *)
(* to n.                                                                   *)
C14_NoteRoundTrip ==
    /\ (NoteNamed /\ arg.octave /\ ~arg.cents) =>
         /\ result = note_map[(arg.midi % 12) + 1]
                        \o FormatInt((arg.midi \div 12) - 1)
         /\ arg.midi = 0 => result = <<"C", "-", "1">>
         /\ arg.midi = 37 => result = <<"C", "#", "2">>
         /\ arg.midi = -2 => result = <<"A", "#", "-", "2">>
    /\ (fn = "midi_to_note" /\ arg.octave /\ ~arg.cents) => pc # "raised"
    /\ (fn = "note_to_midi" /\ arg.octave /\ ~arg.cents) =>
         (pc = "done" /\ back = <<arg.midi>>)

(* The same where the quotient is not cut toward zero: under Python 2, and *)
(* under Python 3 for n >= 0 or n a multiple of 12                         *)
C14_WhereFloorAndTruncationAgree ==
    (arg.python = 2 \/ arg.midi >= 0 \/ arg.midi % 12 = 0) => C14_NoteRoundTrip

-----------------------------------------------------------------------------
(* Alignment of delta *)

(* The sample of the edge-replicated signal at position pos (1-based) *)
EdgeAt(line, pos) == line[Max(1, Min(Len(line), pos))]

(* The k-fold application of the centred window (weight j on the sample at *)
(* offset j, -reach <= j <= reach) to the edge-replicated signal, at pos;  *)
(* the numerator over the divisor SumSq^k                                  *)
RECURSIVE Centered(_, _, _, _)
Centered(line, k, pos, reach) ==
    IF k = 0 THEN EdgeAt(line, pos)
    ELSE FSum([j \in 1..(2 * reach + 1) |->
                 (j - reach - 1)
                   * Centered(line, k - 1, pos + j - reach - 1, reach)],
              1, 2 * reach + 1)

AlignedAt(ord) ==
    (DeltaDone /\ arg.trim /\ arg.order = ord) =>
        \A j \in 1..AxisLen(arg.data, 1 - DeltaAxis) :
            LET x == LineOf(arg.data, DeltaAxis, j)
                y == LineOf(result.num, DeltaAxis, j)
            IN  \A c \in 1..Len(x) :
                    y[c] = Centered(x, ord, c, half_length - 1)

(* C15: with trim=True, for every odd width >= 3 and every order >= 1,     *)
(* delta's output at index i is the order-fold centred regression of the   *)
(* edge-replicated signal at position i: no shift that depends on order,   *)
(* no influence of the filter's zero initial history.                      *)
C15_DeltaAligned == \A ord \in 1..MaxOrder : AlignedAt(ord)

(* The same with order = 1 *)
C15_FirstOrderAligned == AlignedAt(1)

-----------------------------------------------------------------------------
(* The circular shift of stack_memory *)

(* The number of lags stacked so far: the loop has stacked lags 0..i-1 *)
Stacked == IF pc = "done" THEN arg.n_steps ELSE i

-----------------------------------------------------------------------------
(* The segments of sync *)

(* C17: the boundary list sync iterates over is strictly increasing and    *)
(* lies within [0, T], whatever boundaries the caller passes (duplicates,  *)
(* unsorted or out-of-range values included), so every segment             *)
(* data[:, start:end] handed to aggregate has start < end and at least one *)
(* column: aggregate is never called on an empty slice.                    *)
C17_NoEmptySlice ==
    fn = "sync" =>
        /\ \A k \in 1..Len(frames) : 0 <= frames[k] /\ frames[k] <= Cols(arg.data)
        /\ \A k \in 2..Len(frames) : frames[k - 1] < frames[k]
        /\ \A k \in 1..Len(calls) :
              /\ calls[k][1] < calls[k][2]
              /\ calls[k] = <<frames[k], frames[k + 1]>>
              /\ PySlice(calls[k][1], calls[k][2], Cols(arg.data))[1]
                    < PySlice(calls[k][1], calls[k][2], Cols(arg.data))[2]

(* Boundaries given out of range, unsorted and with a duplicate *)
C17_Witness ==
    /\ SyncDone /\ arg.frames = <<4, 1, 1>> /\ arg.pad /\ Cols(arg.data) = 3
    /\ frames = <<0, 1, 3>>
    /\ calls = << <<0, 1>>, <<1, 3>> >>

C17_WitnessNoPad ==
    /\ SyncDone /\ arg.frames = <<2, -1, 0>> /\ ~arg.pad /\ Cols(arg.data) = 2
    /\ frames = <<0, 2>>
    /\ calls = << <<0, 2>> >>

-----------------------------------------------------------------------------
(* core/time_frequency.py: frames_to_samples and samples_to_frames on one  *)
(* integer index; n_fft is <<>> for None and <<n>> for the integer n.      *)

MaxIndex == 10   \* frame and sample indices run over -MaxIndex..MaxIndex
MaxHop == 4      \* hop_length runs over 1..MaxHop
MaxNfft == 5     \* n_fft runs over None and 0..MaxNfft

(* lines 60-62 and 109-111 *)
FftOffset(n_fft) == IF n_fft = <<>> THEN 0 ELSE n_fft[1] \div 2

(* line 64 *)
FramesToSamples(frames_, hop_length, n_fft) ==
    frames_ * hop_length + FftOffset(n_fft)

(* Mutant: the quotient is cut toward zero *)
SamplesToFrames_TowardZero(samples, hop_length, n_fft) ==
    LET num == samples - FftOffset(n_fft)
    IN  IF num >= 0 THEN num \div hop_length ELSE -((-num) \div hop_length)

(* line 114: // on integers is the floor of the quotient *)
SamplesToFrames(samples, hop_length, n_fft) ==
    (samples - FftOffset(n_fft)) \div hop_length

TimeArgs(x) ==
    \E v \in (-MaxIndex)..MaxIndex, h \in 1..MaxHop,
       nf \in {<<>>} \cup {<<n>> : n \in 0..MaxNfft} :
        x = [index |-> v, hop_length |-> h, n_fft |-> nf]

(* fn is the conversion called first; the other one is then called on its  *)
(* result                                                                  *)
InitTime ==
    /\ fn \in {"frames_to_samples", "samples_to_frames"}
    /\ pc = "call"
    /\ err = ""
    /\ TimeArgs(arg)
    /\ data = <<>>
    /\ Idle

(* lines 60-64 *)
FramesToSamplesCall ==
    /\ \/ /\ fn = "frames_to_samples" /\ pc = "call"
          /\ result' = <<FramesToSamples(arg.index, arg.hop_length, arg.n_fft)>>
          /\ pc' = "returned"
          /\ back' = back
       \/ /\ fn = "samples_to_frames" /\ pc = "returned"
          /\ back' = <<FramesToSamples(result[1], arg.hop_length, arg.n_fft)>>
          /\ pc' = "done"
          /\ result' = result
    /\ UNCHANGED <<aliases, fn, err, arg, data, t, history, i, half_length,
                   window, delta_x, frames, data_agg, start, calls>>

(* lines 109-114 *)
SamplesToFramesCall ==
    /\ \/ /\ fn = "samples_to_frames" /\ pc = "call"
          /\ result' = <<SamplesToFrames(arg.index, arg.hop_length, arg.n_fft)>>
          /\ pc' = "returned"
          /\ back' = back
       \/ /\ fn = "frames_to_samples" /\ pc = "returned"
          /\ back' = <<SamplesToFrames(result[1], arg.hop_length, arg.n_fft)>>
          /\ pc' = "done"
          /\ result' = result
    /\ UNCHANGED <<aliases, fn, err, arg, data, t, history, i, half_length,
                   window, delta_x, frames, data_agg, start, calls>>

NextTime == FramesToSamplesCall \/ SamplesToFramesCall

SpecTime == InitTime /\ [][NextTime]_vars

-----------------------------------------------------------------------------
(* Properties of frames_to_samples and samples_to_frames *)

(* q is the floor of num / den, den > 0 *)
IsFloorOf(q, num, den) == q * den <= num /\ num < (q + 1) * den

(* C18: for every integer frame index f (negative included), hop_length    *)
(* >= 1 and n_fft None or a non-negative integer,                          *)
(* samples_to_frames(frames_to_samples(f)) = f; for every integer sample   *)
(* index s, samples_to_frames(s) = floor((s - offset) / hop_length) with   *)
(* offset = n_fft // 2 (0 for None), rounded toward minus infinity, so     *)
(* frames_to_samples(samples_to_frames(s)) <= s                            *)
(*     < frames_to_samples(samples_to_frames(s)) + hop_length.             *)
C18_FrameSampleRoundTrip ==
    LET offset == IF arg.n_fft = <<>> THEN 0
                  ELSE CHOOSE o \in 0..arg.n_fft[1] : IsFloorOf(o, arg.n_fft[1], 2)
    IN  /\ (fn = "frames_to_samples" /\ pc = "done") => back = <<arg.index>>
        /\ (fn = "samples_to_frames" /\ pc \in {"returned", "done"}) =>
              /\ Len(result) = 1
              /\ IsFloorOf(result[1], arg.index - offset, arg.hop_length)
        /\ (fn = "samples_to_frames" /\ pc = "done") =>
              /\ Len(back) = 1
              /\ back[1] <= arg.index
              /\ arg.index < back[1] + arg.hop_length

(* A negative sample index between two frame starts *)
C18_Witness ==
    /\ fn = "samples_to_frames" /\ pc = "done"
    /\ arg = [index |-> -3, hop_length |-> 2, n_fft |-> <<>>]
    /\ result = <<-2>> /\ back = <<-4>>

(* A negative frame index with an odd n_fft *)
C18_WitnessFrame ==
    /\ fn = "frames_to_samples" /\ pc = "done"
    /\ arg = [index |-> -2, hop_length |-> 3, n_fft |-> <<5>>]
    /\ result = <<-4>> /\ back = <<-2>>

=============================================================================
